---------------------------- MODULE Spec2Model ----------------------------
(***************************************************************************)
(* A model of the FUDI message codec of fudi-rs: PdMessage::to_text and    *)
(* NetReceiveUdp::receive_binary (src/src/lib.rs) and parser::get_message  *)
(* (src/src/parser.rs).                                                    *)
(*                                                                         *)
(* Bytes are their ASCII codes, byte strings are sequences of codes.       *)
(* An Option is a sequence of length 0 (None) or 1 (Some(x)).              *)
(* A nom IResult is a record [tag, rest, out] with tag "Ok", "Error" (a    *)
(* recoverable Err::Error) or "Incomplete" (Err::Incomplete: the           *)
(* streaming parsers ran into the end of the slice).                       *)
(***************************************************************************)
EXTENDS Integers, Sequences, FiniteSets, TLC

VARIABLES
    msg,      \* the PdMessage handed to to_text, or NoMsg
    payload,  \* the bytes handed to get_message
    chunks,   \* how many pieces the received payload was put together from
    result,   \* what get_message returned, or NoResult
    received, \* what receive_binary returned for the datagram, if called
    pc        \* "input", "constructed", "encoded", "decoded" or "received"

vars == <<msg, payload, chunks, result, received, pc>>

-----------------------------------------------------------------------------
(* Byte strings used by the code as literals.                              *)

BangWord   == <<98, 97, 110, 103>>
ListWord   == <<108, 105, 115, 116>>
FloatWord  == <<102, 108, 111, 97, 116>>
SymbolWord == <<115, 121, 109, 98, 111, 108>>

None == <<>>
Some(x) == <<x>>

-----------------------------------------------------------------------------
(* Character classes.                                                      *)

\* The test with the tab left out.
is_whitespace_no_tab(c) == (c = 32) \/ (c = 10)

is_whitespace(c) == (c = 32) \/ (c = 9) \/ (c = 10)

is_not_whitespace(c) == ~is_whitespace(c)

is_dec_digit(c) == c \in 48..57

is_alphanum(c) == (c \in 48..57) \/ (c \in 65..90) \/ (c \in 97..122)

-----------------------------------------------------------------------------
(* nom results and the combinators the grammar is built from.              *)

Ok(rest, out) == [tag |-> "Ok", rest |-> rest, out |-> out]
Error         == [tag |-> "Error", rest |-> <<>>, out |-> <<>>]
Incomplete    == [tag |-> "Incomplete", rest |-> <<>>, out |-> <<>>]

Drop(s, n) == SubSeq(s, n + 1, Len(s))
Take(s, n) == SubSeq(s, 1, n)

\* opt!: Ok becomes Some, Err::Error becomes None with the input untouched,
\* every other failure (Incomplete) is passed on.
opt(r, input) ==
    IF r.tag = "Ok" THEN Ok(r.rest, Some(r.out))
    ELSE IF r.tag = "Error" THEN Ok(input, None)
    ELSE r

\* char!(c) on a byte slice.
char(input, c) ==
    IF input = <<>> THEN Incomplete
    ELSE IF Head(input) # c THEN Error
    ELSE Ok(Tail(input), c)

\* digit: one or more decimal digits, ended by a byte that is no digit.
digit(input) ==
    LET stops == {i \in 1..Len(input) : ~is_dec_digit(input[i])}
    IN  IF stops = {} THEN Incomplete
        ELSE LET i == CHOOSE k \in stops : \A j \in stops : k <= j
             IN  IF i = 1 THEN Error
                 ELSE Ok(Drop(input, i - 1), Take(input, i - 1))

\* The run of letters and digits with the empty run accepted.
alphanumeric0(input) ==
    LET stops == {i \in 1..Len(input) : ~is_alphanum(input[i])}
    IN  IF stops = {} THEN Incomplete
        ELSE LET i == CHOOSE k \in stops : \A j \in stops : k <= j
             IN  Ok(Drop(input, i - 1), Take(input, i - 1))

\* alphanumeric: one or more ASCII letters or digits, ended by another byte.
alphanumeric(input) ==
    LET stops == {i \in 1..Len(input) : ~is_alphanum(input[i])}
    IN  IF stops = {} THEN Incomplete
        ELSE LET i == CHOOSE k \in stops : \A j \in stops : k <= j
             IN  IF i = 1 THEN Error
                 ELSE Ok(Drop(input, i - 1), Take(input, i - 1))

\* take_till!(is_not_whitespace): the (possibly empty) run of whitespace
\* before the first byte that is no whitespace.
take_till_not_whitespace(input) ==
    LET stops == {i \in 1..Len(input) : is_not_whitespace(input[i])}
    IN  IF stops = {} THEN Incomplete
        ELSE LET i == CHOOSE k \in stops : \A j \in stops : k <= j
             IN  Ok(Drop(input, i - 1), Take(input, i - 1))


\* alt!: the first alternative unless it fails with Err::Error.
alt(r1, r2) == IF r1.tag = "Error" THEN r2 ELSE r1

-----------------------------------------------------------------------------
(* f32 values.  A value is the decimal [neg, num, scale], standing for     *)
(* (-1)^neg * num / 10^scale, with num not divisible by 10 unless          *)
(* scale = 0.  Decimals of at most six significant digits name distinct    *)
(* f32 values, and f32's Display prints the shortest decimal that reads    *)
(* back as the same value; the digit runs of the model stay below six.     *)

F32(neg, num, scale) == [neg |-> neg, num |-> num, scale |-> scale]

RECURSIVE Pow10(_)
Pow10(n) == IF n = 0 THEN 1 ELSE 10 * Pow10(n - 1)

RECURSIVE Normalize(_, _, _)
Normalize(neg, num, scale) ==
    IF num = 0 THEN F32(neg, 0, 0)
    ELSE IF scale < 0 THEN F32(neg, num * Pow10(0 - scale), 0)
    ELSE IF scale > 0 /\ num % 10 = 0 THEN Normalize(neg, num \div 10, scale - 1)
    ELSE F32(neg, num, scale)

RECURSIVE DigitsToNat(_)
DigitsToNat(ds) ==
    IF ds = <<>> THEN 0
    ELSE 10 * DigitsToNat(Take(ds, Len(ds) - 1)) + (ds[Len(ds)] - 48)

RECURSIVE NatToDigits(_)
NatToDigits(n) ==
    IF n < 10 THEN <<48 + n>>
    ELSE Append(NatToDigits(n \div 10), 48 + (n % 10))

\* The number of leading decimal digits of s.
DigitRun(s) ==
    LET stops == {i \in 1..Len(s) : ~is_dec_digit(s[i])}
    IN  IF stops = {} THEN Len(s)
        ELSE (CHOOSE k \in stops : \A j \in stops : k <= j) - 1

\* The exponent of a decimal: [sign] digits, and nothing after them.
parse_exp(neg, int, frac, e) ==
    LET eBody == IF e # <<>> /\ Head(e) \in {43, 45} THEN Tail(e) ELSE e
    IN  IF eBody = <<>> \/ DigitRun(eBody) # Len(eBody) THEN None
        ELSE IF Head(e) = 45
             THEN Some(Normalize(neg, DigitsToNat(int \o frac),
                                 Len(frac) + DigitsToNat(eBody)))
        ELSE Some(Normalize(neg, DigitsToNat(int \o frac),
                            Len(frac) - DigitsToNat(eBody)))

\* The integral and fractional digits are known: the end or an exponent.
after_fraction(neg, int, frac, rest) ==
    IF int = <<>> /\ frac = <<>> THEN None
    ELSE IF rest = <<>>
         THEN Some(Normalize(neg, DigitsToNat(int \o frac), Len(frac)))
    ELSE IF Head(rest) \in {101, 69} THEN parse_exp(neg, int, frac, Tail(rest))
    ELSE None

\* The integral digits are known: a point and the fractional digits may follow.
after_integral(neg, int, rest) ==
    IF rest # <<>> /\ Head(rest) = 46
    THEN after_fraction(neg, int, Take(Tail(rest), DigitRun(Tail(rest))),
                        Drop(Tail(rest), DigitRun(Tail(rest))))
    ELSE after_fraction(neg, int, <<>>, rest)

parse_decimal(neg, body) ==
    after_integral(neg, Take(body, DigitRun(body)), Drop(body, DigitRun(body)))

\* str::parse::<f32>: [sign] digits [. digits] [e|E [sign] digits], with
\* digits on at least one side of the point.
parse_f32(s) ==
    IF s = <<>> THEN None
    ELSE parse_decimal(Head(s) = 45, IF Head(s) \in {43, 45} THEN Tail(s) ELSE s)

\* The digits of a fraction of the given width, zeros in front.
RECURSIVE FractionDigits(_, _)
FractionDigits(n, width) ==
    IF width = 0 THEN <<>>
    ELSE Append(FractionDigits(n \div 10, width - 1), 48 + (n % 10))

\* f32's Display: sign, integer part, and the fraction when there is one.
render(v) ==
    (IF v.neg THEN <<45>> ELSE <<>>)
    \o NatToDigits(v.num \div Pow10(v.scale))
    \o (IF v.scale = 0 THEN <<>>
        ELSE <<46>> \o FractionDigits(v.num % Pow10(v.scale), v.scale))

\* opt!(alt!(char!('+') | char!('-'))).
opt_sign(input) == opt(alt(char(input, 43), char(input, 45)), input)

\* opt!(pair!(char!('.'), opt!(digit))).
opt_point_digits(input) ==
    LET dot == char(input, 46)
    IN  IF dot.tag # "Ok" THEN opt(dot, input)
        ELSE opt(opt(digit(dot.rest), dot.rest), input)

\* tuple!(digit, opt!(pair!(char!('.'), opt!(digit)))).
digits_point(input) ==
    LET d == digit(input)
    IN  IF d.tag # "Ok" THEN d ELSE opt_point_digits(d.rest)

\* tuple!(char!('.'), digit).
point_digits(input) ==
    LET dot == char(input, 46)
    IN  IF dot.tag # "Ok" THEN dot ELSE digit(dot.rest)

\* tuple!(alt!(char!('e') | char!('E')), opt!(alt!(char!('+') | char!('-'))), digit).
exponent(input) ==
    LET e == alt(char(input, 101), char(input, 69))
    IN  IF e.tag # "Ok" THEN e
        ELSE LET es == opt_sign(e.rest)
             IN  IF es.tag # "Ok" THEN es ELSE digit(es.rest)

\* recognize!: the bytes of input that the parse up to rest went over.
recognized(input, r) ==
    IF r.tag # "Ok" THEN r ELSE Ok(r.rest, Take(input, Len(input) - Len(r.rest)))

\* The mantissa has matched (or not): the optional exponent follows.
after_mantissa(input, m) ==
    IF m.tag # "Ok" THEN m ELSE recognized(input, opt(exponent(m.rest), m.rest))

\* The sign has matched (or not): one of the two mantissa shapes follows.
after_sign(input, sign) ==
    IF sign.tag # "Ok" THEN sign
    ELSE after_mantissa(input, alt(digits_point(sign.rest), point_digits(sign.rest)))

\* nom::recognize_float: the longest prefix of input of the shape
\* [+|-] (digits [. [digits]] | . digits) [(e|E) [+|-] digits].
recognize_float(input) == after_sign(input, opt_sign(input))

\* nom::float: flat_map!(recognize_float, parse_to!(f32)).
float(input) ==
    LET r == recognize_float(input)
    IN  IF r.tag # "Ok" THEN r
        ELSE LET v == parse_f32(r.out)
             IN  IF v = None THEN Error ELSE Ok(r.rest, v[1])

-----------------------------------------------------------------------------
(* The grammar.                                                            *)

\* An atom is the triple ((opt float, opt digits), opt word).
atom_result(f, digits, w) ==
    IF w.tag # "Ok" THEN w ELSE Ok(w.rest, <<<<f, digits>>, w.out>>)

\* opt!(alphanumeric), after the two numbers.
atom_word(f, d) ==
    IF d.tag # "Ok" THEN d
    ELSE atom_result(f, d.out, opt(alphanumeric(d.rest), d.rest))

\* opt!(digit), after the float.
atom_digits(f) ==
    IF f.tag # "Ok" THEN f ELSE atom_word(f.out, opt(digit(f.rest), f.rest))

parse_atom(input) == atom_digits(opt(float(input), input))

\* many_till!(pair!(parse_atom, take_till!(is_not_whitespace)), char!(';')):
\* tokens are collected until a semicolon is met; a round that consumes
\* nothing is an error.
RECURSIVE many_till(_, _)

\* The whitespace after the atom; then the next round.
many_till_pair(input, res, atom, ws) ==
    IF ws.tag # "Ok" THEN ws
    ELSE IF ws.rest = input THEN Error
    ELSE many_till(ws.rest, Append(res, <<atom, ws.out>>))

\* No semicolon here: an atom and the whitespace after it.
many_till_atom(input, res, a) ==
    IF a.tag # "Ok" THEN a
    ELSE many_till_pair(input, res, a.out, take_till_not_whitespace(a.rest))

\* A round that takes the semicolon only when a byte follows it.
many_till_newline(input, res) ==
    LET semi == char(input, 59)
    IN  IF semi.tag = "Ok" /\ semi.rest # <<>> THEN Ok(semi.rest, <<res, semi.out>>)
        ELSE IF semi.tag = "Ok" THEN Incomplete
        ELSE many_till_atom(input, res, parse_atom(input))

many_till(input, res) ==
    LET semi == char(input, 59)
    IN  IF semi.tag = "Ok" THEN Ok(semi.rest, <<res, semi.out>>)
        ELSE many_till_atom(input, res, parse_atom(input))

parse_message(input) == many_till(input, <<>>)

-----------------------------------------------------------------------------
(* Messages (lib.rs) and the results of get_message.  A String is the      *)
(* sequence of its bytes.                                                  *)

Float(v)            == [type |-> "Float", value |-> v]
Symbol(word)        == [type |-> "Symbol", text |-> word]
Bang                == [type |-> "Bang"]
Generic(sel, atoms) == [type |-> "Generic", selector |-> sel, atoms |-> atoms]

OkMsg(m)  == [kind |-> "Ok", msg |-> m]
Err(text) == [kind |-> "Err", text |-> text]
Panic(text) == [kind |-> "panic", text |-> text]

\* The loop with the separating space left out.
RECURSIVE JoinAtomsNoSpace(_, _)
JoinAtomsNoSpace(text, atoms) ==
    IF atoms = <<>> THEN text
    ELSE JoinAtomsNoSpace(text \o Head(atoms), Tail(atoms))

\* PdMessage::to_text, the Generic arm's loop: payload + " " + atom.
RECURSIVE JoinAtoms(_, _)
JoinAtoms(text, atoms) ==
    IF atoms = <<>> THEN text
    ELSE JoinAtoms(text \o <<32>> \o Head(atoms), Tail(atoms))

to_text(m) ==
    LET text == CASE m.type = "Float"   -> FloatWord \o <<32>> \o render(m.value)
                  [] m.type = "Symbol"  -> SymbolWord \o <<32>> \o m.text
                  [] m.type = "Bang"    -> BangWord
                  [] m.type = "Generic" -> JoinAtoms(m.selector, m.atoms)
    IN  text \o <<59, 10>>

-----------------------------------------------------------------------------
(* get_message.                                                            *)

\* str::parse::<u32> on a run of digits (runs of ten digits and more do
\* not occur within the bounds and are refused here).
parse_u32(word) ==
    IF word # <<>> /\ DigitRun(word) = Len(word) /\ Len(word) <= 9
    THEN Some(DigitsToNat(word))
    ELSE None

\* Both arms negate the value.
bytes_to_float(atom) ==
    IF atom[1] = 45
    THEN LET as_int == parse_u32(Tail(atom))
         IN  IF as_int # None THEN Some(F32(TRUE, as_int[1], 0)) ELSE None
    ELSE LET as_int == parse_u32(atom)
         IN  IF as_int # None THEN Some(F32(TRUE, as_int[1], 0)) ELSE None

\* number -> float message (the float, else the digits through
\* bytes_to_float); None when neither gives a value.
NumberToFloat(number) ==
    LET f      == number[1]
        digits == number[2]
    IN  IF f # None THEN Some(OkMsg(Float(f[1])))
        ELSE IF digits # None /\ bytes_to_float(digits[1]) # None
             THEN Some(OkMsg(Float(bytes_to_float(digits[1])[1])))
        ELSE None

\* if 1 == tokens.len(): Some(result) when the block returns.
OneToken(tokens) ==
    LET msg_parts == tokens[1][1]
        number    == msg_parts[1]
        word      == msg_parts[2]
    IN  IF word # None
        THEN IF word[1] = BangWord THEN Some(OkMsg(Bang))
             ELSE IF word[1] = ListWord THEN Some(OkMsg(Bang))
             ELSE Some(OkMsg(Generic(word[1], <<>>)))
        ELSE NumberToFloat(number)

\* if 2 == tokens.len(): Some(result) when the block returns.  The "list"
\* selector has an empty body.
TwoTokens(tokens) ==
    LET word   == tokens[1][1][2]
        second == tokens[2][1]
        asFloat == IF word[1] = FloatWord THEN NumberToFloat(second[1]) ELSE None
    IN  IF word = None THEN None
        ELSE IF asFloat # None THEN asFloat
        ELSE IF word[1] = SymbolWord
             THEN IF second[2] # None
                  THEN Some(OkMsg(Symbol(second[2][1])))
                  ELSE Some(Panic("parsing symbol message not yet implemented"))
        ELSE None

\* The words of the tokens, in order: numbers are not pushed.
WordAtoms(tokens) ==
    LET worded == SelectSeq(tokens, LAMBDA t : t[1][2] # None)
    IN  [i \in 1..Len(worded) |-> worded[i][1][2][1]]

\* message with multiple atoms: atoms[0] panics on an empty vector.
GenericFallThrough(tokens) ==
    LET atoms == WordAtoms(tokens)
    IN  IF atoms = <<>> THEN Panic("index out of bounds")
        ELSE OkMsg(Generic(atoms[1], Tail(atoms)))

\* The parse succeeded: the semicolon check and the three blocks in order.
Classify(tokens, semicolon) ==
    LET one == IF Len(tokens) = 1 THEN OneToken(tokens) ELSE None
        two == IF Len(tokens) = 2 THEN TwoTokens(tokens) ELSE None
    IN  IF semicolon # 59 THEN Err("terminating semicolon is missing")
        ELSE IF one # None THEN one[1]
        ELSE IF two # None THEN two[1]
        ELSE GenericFallThrough(tokens)

get_message(bytes) ==
    LET res == parse_message(bytes)
    IN  IF res.tag = "Ok" THEN Classify(res.out[1], res.out[2])
        ELSE Err("could not parse payload")

-----------------------------------------------------------------------------
(* NetReceiveUdp::receive_binary (lib.rs).                                 *)

\* The length of the receive buffer, and the largest UDP payload (named in
\* the comment above the buffer).
BufferSize  == 1
MaxDatagram == 65507

\* UdpSocket::recv_from into a zeroed buffer of the given size: the bytes
\* of the datagram that fit are written, the excess is discarded, and the
\* number of bytes written is returned.
recv_from(datagram, size) ==
    LET amount == IF Len(datagram) < size THEN Len(datagram) ELSE size
    IN  [amount |-> amount,
         buffer |-> [i \in 1..size |-> IF i <= amount THEN datagram[i] ELSE 0]]

\* Vec::from(&buffer[..amount]).
receive_binary(datagram) ==
    LET recv_result == recv_from(datagram, BufferSize)
    IN  Take(recv_result.buffer, recv_result.amount)

-----------------------------------------------------------------------------
(* The inputs.  A received payload is any concatenation of at most         *)
(* MaxChunks pieces: the reserved words, a plain word, a digit, the sign,  *)
(* the point, the three whitespace bytes and the semicolon.  A constructed *)
(* message takes its strings from Texts and its value from Floats.         *)

MaxChunks   == 4
MaxAtoms    == 2
MaxMantissa == 11
MaxScale    == 1
MaxRun      == 2

Foo == <<102, 111, 111>>
Alpha == <<97, 108, 112, 104, 97>>
One == <<49>>

Chunks ==
    {BangWord, ListWord, FloatWord, SymbolWord, Foo, One,
     <<45>>, <<46>>, <<32>>, <<9>>, <<10>>, <<59>>}

Texts == {Foo, Alpha, ListWord, One}

Floats ==
    {v \in [neg : BOOLEAN, num : 0..MaxMantissa, scale : 0..MaxScale] :
        /\ v = Normalize(v.neg, v.num, v.scale)
        /\ ~(v.neg /\ v.num = 0)}

AtomLists == UNION {[1..n -> Texts] : n \in 0..MaxAtoms}

Messages ==
    {Float(v) : v \in Floats} \cup {Symbol(t) : t \in Texts} \cup {Bang}
    \cup {Generic(sel, atoms) : sel \in Texts, atoms \in AtomLists}

NoMsg    == [type |-> "None"]
NoResult == [kind |-> "None"]

-----------------------------------------------------------------------------
(* The state machine: a message is constructed, serialized and decoded,    *)
(* or a payload arrives piece by piece and is decoded.                     *)

Init ==
    /\ msg = NoMsg
    /\ payload = <<>>
    /\ chunks = 0
    /\ result = NoResult
    /\ received = None
    /\ pc = "input"

Construct(m) ==
    /\ pc = "input"
    /\ chunks = 0
    /\ msg' = m
    /\ pc' = "constructed"
    /\ UNCHANGED <<payload, chunks, result, received>>

ToText ==
    /\ pc = "constructed"
    /\ payload' = to_text(msg)
    /\ pc' = "encoded"
    /\ UNCHANGED <<msg, chunks, result, received>>

Extend(c) ==
    /\ pc = "input"
    /\ chunks < MaxChunks
    /\ payload' = payload \o c
    /\ chunks' = chunks + 1
    /\ UNCHANGED <<msg, result, received, pc>>

GetMessage ==
    /\ pc \in {"input", "encoded"}
    /\ result' = get_message(payload)
    /\ pc' = "decoded"
    /\ UNCHANGED <<msg, payload, chunks, received>>

\* The payload travels as one datagram and receive_binary reads it.
ReceiveBinary ==
    /\ pc \in {"input", "encoded"}
    /\ received' = Some(receive_binary(payload))
    /\ pc' = "received"
    /\ UNCHANGED <<msg, payload, chunks, result>>

Next ==
    \/ \E m \in Messages : Construct(m)
    \/ ToText
    \/ \E c \in Chunks : Extend(c)
    \/ GetMessage
    \/ ReceiveBinary

Spec == Init /\ [][Next]_vars

-----------------------------------------------------------------------------
(* Properties.                                                             *)

Reserved == {BangWord, FloatWord, SymbolWord, ListWord}

Decoded == pc = "decoded"

\* The payload is the given text, with or without the trailing newline.
Terminated(text) == payload \in {text \o <<59>>, text \o <<59, 10>>}

\* C1: a constructed message (a Float, a Symbol, a Bang, or a Generic whose
\* selector is no reserved word and which does not read as a more specific
\* variant) is decoded from its own text as itself.
RoundTrip ==
    (Decoded /\ msg # NoMsg
        /\ (msg.type = "Generic" =>
                /\ msg.selector \notin Reserved
                /\ ~(msg.atoms = <<>> /\ parse_f32(msg.selector) # None)))
    => result = OkMsg(msg)

\* C2: to_text gives a text for every message, and the text is the
\* canonical one: "float " and the rendered value, "symbol " and the text,
\* "bang", or the selector followed by a space and an atom for each atom in
\* order; then ";\n".
CanonicalText ==
    LET body == Take(payload, Len(payload) - 2)
        \* the first n atoms, each after a space
        Spaced[n \in 0..Len(msg.atoms)] ==
            IF n = 0 THEN <<>> ELSE Spaced[n - 1] \o <<32>> \o msg.atoms[n]
    IN  /\ pc = "constructed" => ENABLED ToText
        /\ (pc \in {"encoded", "decoded"} /\ msg # NoMsg) =>
            /\ Len(payload) >= 2
            /\ Drop(payload, Len(payload) - 2) = <<59, 10>>
            /\ msg.type = "Float" => body = FloatWord \o <<32>> \o render(msg.value)
            /\ msg.type = "Symbol" => body = SymbolWord \o <<32>> \o msg.text
            /\ msg.type = "Bang" => body = BangWord
            /\ msg.type = "Generic" =>
                /\ body = msg.selector \o Spaced[Len(msg.atoms)]
                /\ msg.atoms = <<>> => payload = msg.selector \o <<59, 10>>

\* C2's case: a Generic with two different atoms was serialized.
CanonicalTextWitness ==
    /\ pc = "encoded"
    /\ msg.type = "Generic"
    /\ Len(msg.atoms) = 2
    /\ msg.atoms[1] # msg.atoms[2]

\* C3: get_message returns Ok or Err for every payload; it never panics.
NeverPanics == Decoded => result.kind \in {"Ok", "Err"}

\* C4: "list w" is a Symbol(w) for a word w and a Float for a number.
ListOfOne ==
    Decoded =>
        /\ \A w \in {Foo, BangWord, FloatWord} :
              Terminated(ListWord \o <<32>> \o w) => result = OkMsg(Symbol(w))
        /\ Terminated(ListWord \o <<32>> \o One)
              => result = OkMsg(Float(F32(FALSE, 1, 0)))

\* C5: two or more atoms with no reserved selector give a Generic of the
\* first atom and all the others in order, words and numbers alike.
GenericKeepsAtoms ==
    Decoded =>
        \A sel \in {Foo, Alpha} : \A atoms \in AtomLists :
            (atoms # <<>> /\ payload = to_text(Generic(sel, atoms)))
            => /\ result = OkMsg(Generic(sel, atoms))
               /\ Len(result.msg.atoms) = Len(atoms)

\* C6: "float n" is Float(n) for a number n, and "float w" is an error for
\* a second atom w that is no number.
FloatSelector ==
    Decoded =>
        /\ Terminated(FloatWord \o <<32>> \o One)
              => result = OkMsg(Float(F32(FALSE, 1, 0)))
        /\ Terminated(FloatWord \o <<32>> \o <<45>> \o One)
              => result = OkMsg(Float(F32(TRUE, 1, 0)))
        /\ \A w \in {Foo, BangWord, <<45>>, <<46>>} :
              Terminated(FloatWord \o <<32>> \o w) => result.kind = "Err"

\* C7: "symbol a" is Symbol(a) with a taken verbatim, a number included.
SymbolVerbatim ==
    Decoded =>
        \A a \in {Foo, BangWord, One, One \o One, One \o Foo} :
            Terminated(SymbolWord \o <<32>> \o a) => result = OkMsg(Symbol(a))

\* C8: a payload with no atom before the semicolon is an error.
EmptyMessageIsErr == (Decoded /\ Terminated(<<>>)) => result.kind = "Err"

\* C9: a payload without a semicolon is an error that names the missing
\* terminator, never an Ok.
MissingTerminatorNamed ==
    (Decoded /\ \A i \in 1..Len(payload) : payload[i] # 59)
    => result = Err("terminating semicolon is missing")

\* C10: one atom a is a Bang for "bang" and "list", a Float with the value
\* and sign of a for a signed integer or decimal, and otherwise
\* Generic(a, []), "float" and "symbol" included.
OneAtomRule ==
    LET a       == Take(payload, Len(payload) - 1)
        digits  == {i \in 1..Len(a) : is_dec_digit(a[i])}
        points  == {i \in 1..Len(a) : a[i] = 46}
        numeric == /\ digits # {}
                   /\ Cardinality(points) <= 1
                   /\ \A i \in 1..Len(a) :
                         i \in digits \/ i \in points \/ (i = 1 /\ a[i] = 45)
                   /\ \A i \in points : i - 1 \in digits
    IN  (/\ Decoded
         /\ payload # <<>>
         /\ payload[Len(payload)] = 59
         /\ a # <<>>
         /\ \A i \in 1..Len(a) : ~is_whitespace(a[i]) /\ a[i] # 59)
        => result = IF a \in {BangWord, ListWord} THEN OkMsg(Bang)
                    ELSE IF numeric THEN OkMsg(Float(parse_f32(a)[1]))
                    ELSE OkMsg(Generic(a, <<>>))

\* C11: receive_binary returns every byte of a datagram of up to the
\* maximum UDP payload: nothing is cut off.
ReceivesWholeDatagram ==
    (pc = "received" /\ Len(payload) <= MaxDatagram) => received = Some(payload)

\* C12: a Generic that get_message returns has a selector of at least one
\* byte, whatever the payload.
GenericSelectorNonEmpty ==
    (Decoded /\ result.kind = "Ok" /\ result.msg.type = "Generic")
    => result.msg.selector # <<>>

\* C12's case: a received payload was decoded as a Generic with an atom.
GenericSelectorWitness ==
    /\ Decoded
    /\ msg = NoMsg
    /\ result.kind = "Ok"
    /\ result.msg.type = "Generic"
    /\ result.msg.atoms # <<>>

\* The position of the first semicolon of the text, 0 when it has none.
FirstSemicolon(text) ==
    IF \E i \in 1..Len(text) : text[i] = 59
    THEN CHOOSE i \in 1..Len(text) :
             text[i] = 59 /\ \A j \in 1..(i - 1) : text[j] # 59
    ELSE 0

\* The bytes up to and including the first semicolon.
UpToSemicolon(text) == Take(text, FirstSemicolon(text))

\* The bytes the two tests of the tokenizer accept, among all 256.
WhitespaceBytes    == {c \in 0..255 : is_whitespace(c)}
NotWhitespaceBytes == {c \in 0..255 : is_not_whitespace(c)}

\* Where a whitespace run of the message starts after an atom's byte, and
\* where one ends before an atom's byte.  The message is the part of the
\* payload before its first semicolon.
SeparatorStarts ==
    {i \in 2..FirstSemicolon(payload) :
        payload[i] \in {32, 9, 10} /\ payload[i - 1] \notin {32, 9, 10}}

SeparatorEnds ==
    {j \in 1..(FirstSemicolon(payload) - 2) :
        payload[j] \in {32, 9, 10} /\ payload[j + 1] \notin {32, 9, 10}}

\* The whitespace runs of the message that stand between two atoms: the
\* bytes i..j are spaces, tabs or newlines, and the bytes next to them are
\* bytes of atoms.
Separators ==
    {ij \in SeparatorStarts \X SeparatorEnds :
        /\ ij[1] <= ij[2]
        /\ \A k \in ij[1]..ij[2] : payload[k] \in {32, 9, 10}}

\* The runs of one to MaxRun spaces, tabs and newlines.
WhitespaceRuns == UNION {[1..n -> {32, 9, 10}] : n \in 1..MaxRun}

\* Every byte that parse_message skipped after an atom of these tokens is a
\* space, a tab or a newline.
SkipsWhitespaceOnly(tokens) ==
    \A t \in 1..Len(tokens) :
        \A k \in 1..Len(tokens[t][2]) : tokens[t][2][k] \in {32, 9, 10}

\* C13: the result does not change when a separator between two atoms is
\* replaced by any run of spaces, tabs and newlines, and no byte but a space,
\* a tab or a newline is a separator: the tokenizer's tests accept exactly
\* these three, and it skips nothing else after an atom.
SeparatorBlind ==
    /\ WhitespaceBytes = {32, 9, 10}
    /\ NotWhitespaceBytes = (0..255) \ {32, 9, 10}
    /\ Decoded =>
          /\ \A ij \in Separators : \A run \in WhitespaceRuns :
                get_message(Take(payload, ij[1] - 1) \o run \o Drop(payload, ij[2]))
                    = result
          /\ LET res == parse_message(payload)
             IN  res.tag = "Ok" => SkipsWhitespaceOnly(res.out[1])

\* C13's case: two atoms with a tab between them were decoded as a Generic
\* with its atom.
SeparatorBlindWitness ==
    /\ Decoded
    /\ \E ij \in Separators : payload[ij[1]] = 9
    /\ result.kind = "Ok"
    /\ result.msg.type = "Generic"
    /\ Len(result.msg.atoms) = 1

\* The bytes that may follow the semicolon.
TrailingBytes == {10, 32, 59, 102}

\* The results for the prefix alone and with one more byte after it.
SamePrefixResult(prefix) ==
    /\ result = get_message(prefix)
    /\ \A c \in TrailingBytes : get_message(Append(prefix, c)) = result

\* C14: the result is that of the bytes up to and including the first
\* semicolon: whatever follows it, a newline or any other byte or nothing,
\* the payload decodes to the same result.
StopsAtFirstSemicolon ==
    (Decoded /\ \E i \in 1..Len(payload) : payload[i] = 59)
        => SamePrefixResult(UpToSemicolon(payload))

\* C14's case: a payload whose first semicolon is followed by a byte other
\* than a newline was decoded to a message.
StopsAtFirstSemicolonWitness ==
    /\ Decoded
    /\ msg = NoMsg
    /\ result.kind = "Ok"
    /\ FirstSemicolon(payload) > 0
    /\ FirstSemicolon(payload) < Len(payload)
    /\ payload[FirstSemicolon(payload) + 1] # 10

=============================================================================
